---- MODULE Spec2Model ----
(***************************************************************************)
(* Model of the DatabunkerPro Python client (src/databunkerpro/api.py):    *)
(* the request dispatcher _make_request, its raw variant raw_request, the  *)
(* endpoint methods that delegate to it, and get_system_metrics; and of    *)
(* the scripts src/bulk_user_fetcher.py and src/bulk_user_creator.py that  *)
(* drive the client in batches.                                            *)
(*                                                                         *)
(* Python values are tagged records so that None, strings and dicts stay   *)
(* distinct; a dict is the sequence of its items in insertion order.       *)
(* JSON text is a sequence of tokens; json.dumps and response.json() are   *)
(* a serializer and a parser over that text.                               *)
(***************************************************************************)
EXTENDS Integers, Sequences, FiniteSets, TLC

VARIABLES base_url, x_bunker_token, x_bunker_tenant,
          json_error_is_request_exception,
          pc, call, sent, outcome, ret, ncalls,
          attempts, caller_data, seen,
          lines_written, parsed, args, other,
          fetcher, creator

vars == <<base_url, x_bunker_token, x_bunker_tenant,
          json_error_is_request_exception,
          pc, call, sent, outcome, ret, ncalls,
          attempts, caller_data, seen,
          lines_written, parsed, args, other,
          fetcher, creator>>

\* Number of client calls explored in one behaviour.
MaxCalls == 2

\* Number of lines of a metrics text handed to parse_prometheus_metrics.
MaxLines == 2

\* Number of records handed to create_users_bulk in one call.
MaxRecords == 2

\* Number of lines of the tokens file, and the batch_size of a fetch.
MaxTokens == 3

BatchSize == 2

\* Number of batches of the bulk creation (num_batches).
NumBatches == 2

\* min(10, len(created_users)): the tokens kept of one batch
SampleSize == 10

-----------------------------------------------------------------------------
\* Python values

PyNone == [t |-> "none", s |-> "", m |-> <<>>]

PyStr(s) == [t |-> "str", s |-> s, m |-> <<>>]

PyDict(items) == [t |-> "dict", s |-> "", m |-> items]

\* an int, kept as its decimal text
PyInt(n) == [t |-> "int", s |-> ToString(n), m |-> <<>>]

PyList(values) == [t |-> "list", s |-> "", m |-> values]

Item(k, v) == [k |-> k, v |-> v]

\* bool(v): None, "", {} and 0.0 are falsy
Truthy(v) ==
    CASE v.t = "none" -> FALSE
      [] v.t = "str"  -> v.s # ""
      [] v.t = "dict" -> v.m # <<>>
      [] v.t = "float" -> v.s # "0.0"
      [] v.t = "int"  -> v.s # "0"
      [] v.t = "list" -> v.m # <<>>

DictKeys(d) == { d.m[i].k : i \in 1..Len(d.m) }

DictHas(d, k) == d.t = "dict" /\ k \in DictKeys(d)

\* d.get(k, default)
DictGet(d, k, default) ==
    IF DictHas(d, k)
    THEN LET i == CHOOSE j \in 1..Len(d.m) : d.m[j].k = k IN d.m[i].v
    ELSE default

\* d[k] = v : an existing key keeps its position, a new key is appended
DictSet(d, k, v) ==
    IF DictHas(d, k)
    THEN PyDict([i \in 1..Len(d.m) |-> IF d.m[i].k = k THEN Item(k, v) ELSE d.m[i]])
    ELSE PyDict(Append(d.m, Item(k, v)))

\* d.copy() : a new dict with the same items in the same order
DictCopy(d) == PyDict([i \in 1..Len(d.m) |-> d.m[i]])

-----------------------------------------------------------------------------
\* JSON text

Punct(c) == [t |-> "p", v |-> c]

StrTok(s) == [t |-> "s", v |-> s]

NumTok(s) == [t |-> "n", v |-> s]

RECURSIVE JsonDumps(_)
RECURSIVE DumpsItems(_, _)
RECURSIVE DumpsElements(_, _)

\* the elements of an array, comma separated
DumpsElements(values, i) ==
    IF i > Len(values) THEN <<>>
    ELSE (IF i > 1 THEN <<Punct(",")>> ELSE <<>>)
         \o JsonDumps(values[i])
         \o DumpsElements(values, i + 1)

\* the members of an object, comma separated, in insertion order
DumpsItems(items, i) ==
    IF i > Len(items) THEN <<>>
    ELSE (IF i > 1 THEN <<Punct(",")>> ELSE <<>>)
         \o <<StrTok(items[i].k), Punct(":")>>
         \o JsonDumps(items[i].v)
         \o DumpsItems(items, i + 1)

\* json.dumps(v)
JsonDumps(v) ==
    CASE v.t = "none" -> <<Punct("null")>>
      [] v.t = "str"  -> <<StrTok(v.s)>>
      [] v.t = "dict" -> <<Punct("{")>> \o DumpsItems(v.m, 1) \o <<Punct("}")>>
      [] v.t = "int"  -> <<NumTok(v.s)>>
      [] v.t = "list" -> <<Punct("[")>> \o DumpsElements(v.m, 1) \o <<Punct("]")>>

ParseFail == [ok |-> FALSE, val |-> PyNone, rest |-> <<>>]

RECURSIVE ParseValue(_)
RECURSIVE ParseMembers(_, _)
RECURSIVE ParseElements(_, _)

\* elements of an array after "[": value, then "," or "]"
ParseElements(ts, acc) ==
    LET r == ParseValue(ts) IN
    IF ~r.ok \/ r.rest = <<>> THEN ParseFail
    ELSE IF Head(r.rest) = Punct("]")
    THEN [ok |-> TRUE, val |-> PyList(Append(acc, r.val)), rest |-> Tail(r.rest)]
    ELSE IF Head(r.rest) = Punct(",")
    THEN ParseElements(Tail(r.rest), Append(acc, r.val))
    ELSE ParseFail

\* members of an object after "{": string ":" value, then "," or "}";
\* a repeated key keeps its first position and takes the last value
ParseMembers(ts, acc) ==
    IF Len(ts) < 3 \/ ts[1].t # "s" \/ ts[2] # Punct(":") THEN ParseFail
    ELSE LET r == ParseValue(SubSeq(ts, 3, Len(ts))) IN
         IF ~r.ok \/ r.rest = <<>> THEN ParseFail
         ELSE LET acc2 == DictSet(acc, ts[1].v, r.val) IN
              IF Head(r.rest) = Punct("}")
              THEN [ok |-> TRUE, val |-> acc2, rest |-> Tail(r.rest)]
              ELSE IF Head(r.rest) = Punct(",")
              THEN ParseMembers(Tail(r.rest), acc2)
              ELSE ParseFail

ParseValue(ts) ==
    IF ts = <<>> THEN ParseFail
    ELSE LET h == Head(ts) IN
         IF h.t = "s" THEN [ok |-> TRUE, val |-> PyStr(h.v), rest |-> Tail(ts)]
         ELSE IF h.t = "n"
         THEN [ok |-> TRUE, val |-> [t |-> "int", s |-> h.v, m |-> <<>>], rest |-> Tail(ts)]
         ELSE IF h.v = "["
         THEN IF Len(ts) >= 2 /\ ts[2] = Punct("]")
              THEN [ok |-> TRUE, val |-> PyList(<<>>), rest |-> SubSeq(ts, 3, Len(ts))]
              ELSE ParseElements(Tail(ts), <<>>)
         ELSE IF h.v = "null" THEN [ok |-> TRUE, val |-> PyNone, rest |-> Tail(ts)]
         ELSE IF h.v = "{"
         THEN IF Len(ts) >= 2 /\ ts[2] = Punct("}")
              THEN [ok |-> TRUE, val |-> PyDict(<<>>), rest |-> SubSeq(ts, 3, Len(ts))]
              ELSE ParseMembers(Tail(ts), PyDict(<<>>))
         ELSE ParseFail

\* response.json(): the decoded value, or a decode error
JsonLoads(ts) ==
    LET r == ParseValue(ts) IN
    IF r.ok /\ r.rest = <<>> THEN [ok |-> TRUE, val |-> r.val]
    ELSE [ok |-> FALSE, val |-> PyNone]

-----------------------------------------------------------------------------
\* Prometheus text.  A text is a sequence of characters.

Digits == {"0", "1", "2", "3", "4", "5", "6", "7", "8", "9"}

Letters ==
    {"a", "b", "c", "d", "e", "f", "g", "h", "i", "j", "k", "l",
    "m", "n", "o", "p", "q", "r", "s", "t", "u", "v", "w", "x", "y", "z",
    "A", "B", "C", "D", "E", "F", "G", "H", "I", "J", "K", "L", "M", "N",
    "O", "P", "Q", "R", "S", "T", "U", "V", "W", "X", "Y", "Z"}

\* [a-zA-Z0-9_]
WordChars == Letters \cup Digits \cup {"_"}

\* [0-9.]
NumberChars == Digits \cup {"."}

\* \s
Whitespace == {" ", "\t", "\n", "\r", "\f"}

RECURSIVE Split(_, _)
\* text.split(sep): the pieces between separators, empty pieces included
Split(text, sep) ==
    IF \A i \in 1..Len(text) : text[i] # sep THEN <<text>>
    ELSE LET i == CHOOSE j \in 1..Len(text) :
                      text[j] = sep /\ \A k \in 1..(j - 1) : text[k] # sep
         IN  <<SubSeq(text, 1, i - 1)>> \o Split(SubSeq(text, i + 1, Len(text)), sep)

RECURSIVE PrefixLen(_, _)
\* length of the longest prefix of cs made of characters of class
PrefixLen(cs, class) ==
    IF cs # <<>> /\ Head(cs) \in class THEN 1 + PrefixLen(Tail(cs), class) ELSE 0

RECURSIVE PrefixLenUntil(_, _)
\* length of the longest prefix of cs without the character stop
PrefixLenUntil(cs, stop) ==
    IF cs # <<>> /\ Head(cs) # stop THEN 1 + PrefixLenUntil(Tail(cs), stop) ELSE 0

Drop(cs, n) == SubSeq(cs, n + 1, Len(cs))

RECURSIVE Str(_)
\* the string made of the characters cs
Str(cs) == IF cs = <<>> THEN "" ELSE Head(cs) \o Str(Tail(cs))

NoMatch == [ok |-> FALSE, name |-> <<>>, labels |-> <<>>, value |-> <<>>]

\* the whitespace and value after the name and labels: \s+([0-9.]+)$
MatchValue(name, labels, rest) ==
    LET w == PrefixLen(rest, Whitespace)
        value == Drop(rest, w)
    IN  IF w >= 1 /\ value # <<>> /\ PrefixLen(value, NumberChars) = Len(value)
        THEN [ok |-> TRUE, name |-> name, labels |-> labels, value |-> value]
        ELSE NoMatch

\* re.match(r"^([a-zA-Z0-9_]+)(?:{([^}]+)})?\s+([0-9.]+)$", line)
MatchMetric(line) ==
    LET n == PrefixLen(line, WordChars)
        name == SubSeq(line, 1, n)
        rest == Drop(line, n)
    IN  IF n = 0 THEN NoMatch
        ELSE IF rest # <<>> /\ Head(rest) = "{"
        THEN LET l == PrefixLenUntil(Tail(rest), "}")
                 after == Drop(rest, l + 1)
             IN  IF l >= 1 /\ after # <<>> /\ Head(after) = "}"
                 THEN MatchValue(name, SubSeq(rest, 2, l + 1), Tail(after))
                 ELSE NoMatch
        ELSE MatchValue(name, <<>>, rest)

RECURSIVE StripLeadingZeros(_)
StripLeadingZeros(ds) ==
    IF Len(ds) > 1 /\ Head(ds) = "0" THEN StripLeadingZeros(Tail(ds)) ELSE ds

RECURSIVE StripTrailingZeros(_)
StripTrailingZeros(ds) ==
    IF Len(ds) > 1 /\ ds[Len(ds)] = "0"
    THEN StripTrailingZeros(SubSeq(ds, 1, Len(ds) - 1)) ELSE ds

PyFloat(r) == [t |-> "float", s |-> r, m |-> <<>>]

\* float(value) for value in [0-9.]+ : the number, written as repr() writes
\* it, or ValueError when there are two dots or no digit
FloatOf(value) ==
    LET ip == PrefixLen(value, Digits)
        rest == Drop(value, ip)
        frac == IF rest = <<>> THEN <<>> ELSE Tail(rest)
    IN  IF PrefixLen(frac, Digits) # Len(frac) \/ ip + Len(frac) = 0
        THEN [ok |-> FALSE, val |-> PyNone]
        ELSE [ok |-> TRUE,
              val |-> PyFloat(Str(StripLeadingZeros(IF ip = 0 THEN <<"0">>
                                                   ELSE SubSeq(value, 1, ip)))
                              \o "."
                              \o Str(StripTrailingZeros(IF frac = <<>> THEN <<"0">>
                                                       ELSE frac)))]

\* line.startswith("#") or not line.strip()
SkippedLine(line) ==
    \/ (line # <<>> /\ Head(line) = "#")
    \/ PrefixLen(line, Whitespace) = Len(line)

\* f"{name}{{{labels}}}" if labels else name
MetricKey(mt) ==
    IF mt.labels # <<>> THEN Str(mt.name) \o "{" \o Str(mt.labels) \o "}"
    ELSE Str(mt.name)

ValueErrorText(value) == "could not convert string to float: '" \o Str(value) \o "'"

RECURSIVE ParseLines(_, _, _)
\* the loop of lines 2639-2651 from line i on, metrics being the dict so far
ParseLines(lines, i, metrics) ==
    IF i > Len(lines) THEN [ok |-> TRUE, val |-> metrics, exc |-> ""]
    ELSE IF SkippedLine(lines[i]) THEN ParseLines(lines, i + 1, metrics)
    ELSE LET mt == MatchMetric(lines[i]) IN
         IF ~mt.ok THEN ParseLines(lines, i + 1, metrics)
         ELSE LET f == FloatOf(mt.value) IN
              IF ~f.ok
              THEN [ok |-> FALSE, val |-> PyNone, exc |-> ValueErrorText(mt.value)]
              ELSE ParseLines(lines, i + 1, DictSet(metrics, MetricKey(mt), f.val))

\* _parse_prometheus_metrics(metrics_text)
ParsePrometheusMetrics(text) == ParseLines(Split(text, "\n"), 1, PyDict(<<>>))

TextSpecExample ==
    <<"f", "o", "o", " ", "1", ".", "0", "\n", "#", " ",
    "c", "o", "m", "m", "e", "n", "t", "\n", "b", "a", "r", "{", "x", "=",
    "\"", "1", "\"", "}", " ", "2", ".", "5", "\n">>

TextStatusMetric ==
    <<"s", "t", "a", "t", "u", "s", " ", "1", "\n", "u",
    "p", " ", "0", "1", ".", "5", "0">>

TextBadNumber ==
    <<"a", " ", "1", "\n", "b", " ", "1", ".", "2", ".",
    "3", "\n", "c", " ", "3">>

TextEmpty ==
    <<>>

MetricsTexts == { TextSpecExample, TextStatusMetric, TextBadNumber, TextEmpty }

\* The lines a caller of parse_prometheus_metrics puts into a text, each
\* described by its parts; value is the number the line states, written as
\* repr() writes a float, "" when the characters after the name are no number.
LineNames == { <<"u", "p">>, <<"r", "_", "1">> }

LineLabels == { <<>>, <<"x", "=", "\"", "1", "\"">> }

LineGaps == { <<" ">> }

LineNumbers ==
    { [text |-> <<"7">>, value |-> "7.0"],
      [text |-> <<"2", ".", "5">>, value |-> "2.5"],
      [text |-> <<"1", ".", "2", ".", "3">>, value |-> ""] }

Line(kind, name, labels, gap, number) ==
    [kind |-> kind, name |-> name, labels |-> labels, gap |-> gap,
     number |-> number]

NoNumber == [text |-> <<>>, value |-> ""]

CommentLine == Line("comment", <<"#", " ", "H", "E", "L", "P">>, <<>>, <<>>, NoNumber)

BlankLine == Line("blank", <<>>, <<>>, <<>>, NoNumber)

\* lines that are neither a metric line, a comment nor blank: a lone dot, a
\* negative number, an exponent, a comment after leading spaces, a metric
\* line ending in a carriage return
MalformedLines ==
    { Line("malformed", <<"u", "p">>, <<>>, <<" ">>, [text |-> t, value |-> ""]) :
        t \in { <<".">>, <<"-", "1">>, <<"1", "e", "5">>, <<"7", "\r">> } }
    \cup { Line("malformed", <<" ", " ", "#", " ", "x">>, <<>>, <<>>, NoNumber) }

LinesToWrite ==
    { Line("metric", n, l, g, v) : n \in LineNames, l \in LineLabels,
                                   g \in LineGaps, v \in LineNumbers }
    \cup { CommentLine, BlankLine } \cup MalformedLines

\* the characters of one line
LineText(d) ==
    d.name \o (IF d.labels # <<>> THEN <<"{">> \o d.labels \o <<"}">> ELSE <<>>)
           \o d.gap \o d.number.text

RECURSIVE TextOfLines(_)
\* "\n".join(lines)
TextOfLines(ds) ==
    IF ds = <<>> THEN <<>>
    ELSE IF Len(ds) = 1 THEN LineText(ds[1])
    ELSE LineText(ds[1]) \o <<"\n">> \o TextOfLines(Tail(ds))

TextsToParse == UNION { [1..n -> LinesToWrite] : n \in 0..MaxLines }

-----------------------------------------------------------------------------
\* Inputs explored

\* base URLs as sequences of chunks; "/" is a chunk of its own
BaseUrls == { <<"http:", "/", "/", "host">>,
              <<"http:", "/", "/", "host", "/", "/">> }

Tokens == {"", "tok"}

Tenants == {"", "acme"}

Endpoints == {"UserGet", "SystemGetSystemStats"}

MetaSrc == PyDict(<<Item("src", PyStr("ui"))>>)

Metadatas == { PyNone, PyDict(<<>>), MetaSrc }

Payloads == { PyNone,
              PyDict(<<>>),
              PyDict(<<Item("mode", PyStr("email")), Item("identity", PyStr("a"))>>),
              PyDict(<<Item("request_metadata", PyStr("old")), Item("mode", PyStr("email"))>>) }

Modes == {"email"}

Identities == {"a", "b"}

BodyOkProfile ==
    PyDict(<<Item("status", PyStr("ok")),
             Item("profile", PyDict(<<Item("email", PyStr("a"))>>))>>)

BodyBoom == PyDict(<<Item("message", PyStr("boom"))>>)

BodyDenied ==
    PyDict(<<Item("status", PyStr("error")), Item("message", PyStr("denied"))>>)

\* response bodies: JSON objects, a JSON string, a truncated object
Contents == { JsonDumps(BodyOkProfile), JsonDumps(BodyBoom), JsonDumps(BodyDenied),
              JsonDumps(PyDict(<<>>)),
              <<StrTok("plain")>>, <<Punct("{"), StrTok("status")>> }

StatusCodes == {200, 201, 304, 404, 500}

TransportErrors == {"Connection refused", "Read timed out"}

NoContent == <<>>

Failure(e) == [kind |-> "fail", err |-> e, code |-> 0, content |-> NoContent]

Response(c, b) == [kind |-> "resp", err |-> "", code |-> c, content |-> b]

Outcomes == { Failure(e) : e \in TransportErrors }
            \cup { Response(c, b) : c \in StatusCodes, b \in Contents }

\* a character on the wire
Chr(c) == [t |-> "c", v |-> c]

Encode(text) == [i \in 1..Len(text) |-> Chr(text[i])]

\* response.text
Text(content) == [i \in 1..Len(content) |-> content[i].v]

MetricsStatusCodes == {200, 500}

MetricsOutcomes == { Failure(e) : e \in TransportErrors }
                   \cup { Response(c, Encode(x)) : c \in MetricsStatusCodes,
                                                   x \in MetricsTexts }

-----------------------------------------------------------------------------
\* Request construction

\* a strip that removes one trailing slash only
Rstrip_OneSlash(u) ==
    IF u # <<>> /\ u[Len(u)] = "/" THEN SubSeq(u, 1, Len(u) - 1) ELSE u

RECURSIVE Rstrip(_)
\* str.rstrip("/")
Rstrip(u) ==
    IF u # <<>> /\ u[Len(u)] = "/" THEN Rstrip(SubSeq(u, 1, Len(u) - 1)) ELSE u

RECURSIVE UrlText(_)
UrlText(u) == IF u = <<>> THEN "" ELSE Head(u) \o UrlText(Tail(u))

NoHeaders == [h \in {} |-> ""]

TokenHeader == IF x_bunker_token # "" THEN "X-Bunker-Token" :> x_bunker_token ELSE NoHeaders

TenantHeader == IF x_bunker_tenant # "" THEN "X-Bunker-Tenant" :> x_bunker_tenant ELSE NoHeaders

\* a dispatcher that sends the tenant header whether or not a tenant is set
MakeRequestHeaders_TenantAlways ==
    ("Content-Type" :> "application/json") @@ TokenHeader
    @@ ("X-Bunker-Tenant" :> x_bunker_tenant)

MakeRequestHeaders == ("Content-Type" :> "application/json") @@ TokenHeader @@ TenantHeader

RawRequestHeaders == ("Content-Type" :> "application/json") @@ TokenHeader

\* a URL that carries the number of the call
EndpointUrl_Numbered(endpoint) ==
    base_url \o <<"/", "v2", "/", endpoint, "?", ToString(ncalls)>>

\* f"{self.base_url}/v2/{endpoint}"
EndpointUrl(endpoint) == base_url \o <<"/", "v2", "/", endpoint>>

NoBody == [present |-> FALSE, text |-> <<>>]

JsonBody(v) == [present |-> TRUE, text |-> JsonDumps(v)]

\* a construction that always serializes, "{}" when there is nothing to send
BuildBody_AlwaysJson(data, request_metadata) ==
    LET body_data == IF Truthy(data) THEN DictCopy(data) ELSE PyDict(<<>>)
        merged == IF Truthy(request_metadata)
                  THEN DictSet(body_data, "request_metadata", request_metadata)
                  ELSE body_data
    IN  JsonBody(merged)

\* a construction that starts from an empty mapping when metadata is given,
\* dropping the payload
BuildBody_MetadataOnly(data, request_metadata) ==
    IF Truthy(data) \/ Truthy(request_metadata)
    THEN IF Truthy(request_metadata)
         THEN JsonBody(PyDict(<<Item("request_metadata", request_metadata)>>))
         ELSE JsonBody(DictCopy(data))
    ELSE NoBody

\* the body of a request: None, or the JSON text of the payload copy with
\* request_metadata set on it
BuildBody(data, request_metadata) ==
    IF Truthy(data) \/ Truthy(request_metadata)
    THEN LET body_data == IF Truthy(data) THEN DictCopy(data) ELSE PyDict(<<>>)
             merged == IF Truthy(request_metadata)
                       THEN DictSet(body_data, "request_metadata", request_metadata)
                       ELSE body_data
         IN  JsonBody(merged)
    ELSE NoBody

\* a construction that writes request_metadata into the mapping it was given
PayloadAfterBuild_NoCopy(data, request_metadata) ==
    IF Truthy(data) /\ Truthy(request_metadata)
    THEN DictSet(data, "request_metadata", request_metadata)
    ELSE data

\* the mapping the caller passed as data, once the body is built: line 64
\* takes a copy and line 66 writes request_metadata to that copy, so no
\* statement writes to the caller's object
PayloadAfterBuild(data, request_metadata) == data

HttpRequest(method, url, headers, body) ==
    [method |-> method, url |-> url, headers |-> headers, body |-> body]

NoRequest == HttpRequest("", <<>>, NoHeaders, NoBody)

-----------------------------------------------------------------------------
\* Response handling

Returns(v) == [kind |-> "value", val |-> v, content |-> NoContent, exc |-> ""]

ReturnsBytes(b) == [kind |-> "bytes", val |-> PyNone, content |-> b, exc |-> ""]

Raises(e) == [kind |-> "raise", val |-> PyNone, content |-> NoContent, exc |-> e]

NoReturn == [kind |-> "none", val |-> PyNone, content |-> NoContent, exc |-> ""]

ErrorMapping(msg) ==
    PyDict(<<Item("status", PyStr("error")), Item("message", PyStr(msg))>>)

\* Response.ok: raise_for_status() does not raise
ResponseOk(code) == ~(400 <= code /\ code < 600)

\* the reason phrase the server sends with a status code
ReasonPhrase(code) ==
    CASE code = 404 -> "Not Found"
      [] code = 500 -> "Internal Server Error"
      [] OTHER -> ""

\* str() of the HTTPError raised by raise_for_status()
HttpErrorText(code, url) ==
    ToString(code)
    \o (IF code < 500 THEN " Client Error: " ELSE " Server Error: ")
    \o ReasonPhrase(code) \o " for url: " \o UrlText(url)

JsonDecodeErrorText == "Expecting value: line 1 column 1 (char 0)"

\* a dispatcher that stamps its own status on every decoded response
NormalizeDecoded_InventStatus(code, result) ==
    IF result.t = "dict" THEN Returns(DictSet(result, "status", PyStr("ok")))
    ELSE Returns(result)

\* lines 76-85: the result once the body is decoded
NormalizeDecoded(code, result) ==
    IF ~ResponseOk(code)
    THEN IF result.t # "dict" THEN Raises("AttributeError")
         ELSE IF Truthy(DictGet(result, "status", PyNone)) THEN Returns(result)
         ELSE Returns(PyDict(<<Item("status", PyStr("error")),
                               Item("message", DictGet(result, "message",
                                                       PyStr("API request failed")))>>))
    ELSE Returns(result)

\* a dispatcher without the except clause: every failure propagates
MakeRequestResult_NoExcept(url, o) ==
    IF o.kind = "fail" THEN Raises(o.err)
    ELSE IF ~ResponseOk(o.code) THEN Raises(HttpErrorText(o.code, url))
    ELSE LET j == JsonLoads(o.content) IN
         IF ~j.ok THEN Raises("JSONDecodeError") ELSE NormalizeDecoded(o.code, j.val)

\* lines 71-87: try / except requests.exceptions.RequestException
MakeRequestResult(url, o) ==
    IF o.kind = "fail"
    THEN Returns(ErrorMapping("Error making request: " \o o.err))
    ELSE IF ~ResponseOk(o.code)
    THEN Returns(ErrorMapping("Error making request: " \o HttpErrorText(o.code, url)))
    ELSE LET j == JsonLoads(o.content) IN
         IF ~j.ok
         THEN IF json_error_is_request_exception
              THEN Returns(ErrorMapping("Error making request: " \o JsonDecodeErrorText))
              ELSE Raises("JSONDecodeError")
         ELSE NormalizeDecoded(o.code, j.val)

\* a raw mode that calls raise_for_status() before handing back the content
RawRequestResult_RaiseForStatus(o) ==
    IF o.kind = "fail" THEN Raises(o.err)
    ELSE IF ~ResponseOk(o.code) THEN Raises("HTTPError")
    ELSE ReturnsBytes(o.content)

\* lines 123-124: no try, no raise_for_status, no decoding
RawRequestResult(o) ==
    IF o.kind = "fail" THEN Raises(o.err) ELSE ReturnsBytes(o.content)

\* get_system_metrics without its try / except
GetSystemMetricsResult_NoExcept(o) ==
    IF o.kind = "fail" THEN Raises(o.err)
    ELSE LET r == ParsePrometheusMetrics(Text(o.content)) IN
         IF r.ok THEN Returns(r.val) ELSE Raises(r.exc)

\* lines 2619-2624: the parsed metrics, or an error mapping for any exception
GetSystemMetricsResult(o) ==
    IF o.kind = "fail"
    THEN Returns(ErrorMapping("Error getting metrics: " \o o.err))
    ELSE LET r == ParsePrometheusMetrics(Text(o.content)) IN
         IF r.ok THEN Returns(r.val)
         ELSE Returns(ErrorMapping("Error getting metrics: " \o r.exc))

-----------------------------------------------------------------------------
\* Operations.  A call is two steps: the method builds the request and hands
\* it to requests.request (pc = "inflight"); the transport then fails or
\* delivers a response and the method finishes with its result (pc = "done").

Call(op, endpoint, data, request_metadata) ==
    [op |-> op, endpoint |-> endpoint, data |-> data,
     request_metadata |-> request_metadata]

NoCall == Call("", "", PyNone, PyNone)

NoOutcome == Failure("")

\* the calls whose first request is remembered, to compare a repeat with it
TrackedCalls ==
    { Call("_make_request", "UserGet",
           PyDict(<<Item("mode", PyStr("email")), Item("identity", PyStr("a"))>>),
           MetaSrc),
      Call("raw_request", "SystemGetSystemStats", PyNone, PyNone),
      Call("get_user", "UserGet",
           PyDict(<<Item("mode", PyStr("email")), Item("identity", PyStr("b"))>>),
           PyNone) }

NotSeen == [count |-> 0, request |-> NoRequest]

\* a call made on the same client from a second thread: its own frame of
\* locals (position, arguments, request, response, result)
Frame(p, c, request, o, r) ==
    [pc |-> p, call |-> c, sent |-> request, outcome |-> o, ret |-> r]

OtherIdle == Frame("idle", NoCall, NoRequest, NoOutcome, NoReturn)

\* the record of the calls made so far, after one more call c sent request
Remember(c, request) ==
    IF c \in TrackedCalls
    THEN [seen EXCEPT ![c] = [count |-> @.count + 1,
                              request |-> IF @.count = 0 THEN request
                                          ELSE @.request]]
    ELSE seen

\* the demo scripts before they run: bulk_user_fetcher.py has read no
\* tokens, bulk_user_creator.py has created no batch
FetcherIdle ==
    [pc |-> "idle", tokens |-> <<>>, i |-> 0, tasks |-> <<>>,
     stats |-> [total_fetched |-> 0, errors |-> 0], fetched |-> <<>>, ok |-> 0]

CreatorIdle ==
    [pc |-> "idle", batch |-> 0, all_tokens |-> <<>>, file |-> <<>>,
     written |-> FALSE, results |-> <<>>]

Scripts == <<fetcher, creator>>

\* DatabunkerproAPI(base_url, x_bunker_token, x_bunker_tenant), no call made
ClientInit ==
    /\ \E u \in BaseUrls : base_url = Rstrip(u)
    /\ x_bunker_token \in Tokens
    /\ x_bunker_tenant \in Tenants
    /\ json_error_is_request_exception \in BOOLEAN
    /\ pc = "idle"
    /\ call = NoCall
    /\ sent = NoRequest
    /\ outcome = NoOutcome
    /\ ret = NoReturn
    /\ ncalls = 0
    /\ attempts = 0
    /\ caller_data = PyNone
    /\ seen = [c \in TrackedCalls |-> NotSeen]
    /\ lines_written = <<>>
    /\ parsed = NoReturn
    /\ args = <<>>
    /\ other = OtherIdle

Init == ClientInit /\ fetcher = FetcherIdle /\ creator = CreatorIdle

Config == <<base_url, x_bunker_token, x_bunker_tenant, json_error_is_request_exception>>

\* a call starts and its request goes out; positional holds the arguments
\* of an endpoint method that the formulas below compare with the request
StartWith(positional, op, endpoint, data, request_metadata, request) ==
    /\ pc # "inflight"
    /\ ncalls < MaxCalls
    /\ ncalls' = ncalls + 1
    /\ pc' = "inflight"
    /\ call' = Call(op, endpoint, data, request_metadata)
    /\ sent' = request
    /\ outcome' = NoOutcome
    /\ ret' = NoReturn
    /\ attempts' = 1
    /\ caller_data' = PayloadAfterBuild(data, request_metadata)
    /\ args' = positional
    /\ UNCHANGED <<Config, Scripts, lines_written, parsed, other>>

Start(op, endpoint, data, request_metadata, request) ==
    /\ StartWith(<<>>, op, endpoint, data, request_metadata, request)
    /\ UNCHANGED seen

\* the request built by lines 54-69 (_make_request) or 108-121 (raw_request)
Send(op, endpoint, data, request_metadata, headers) ==
    Start(op, endpoint, data, request_metadata,
          HttpRequest("POST", EndpointUrl(endpoint), headers,
                      BuildBody(data, request_metadata)))

make_request ==
    \E e \in Endpoints, d \in Payloads, md \in Metadatas :
        Send("_make_request", e, d, md, MakeRequestHeaders)

raw_request ==
    \E e \in Endpoints, d \in Payloads, md \in Metadatas :
        Send("raw_request", e, d, md, RawRequestHeaders)

get_user ==
    \E mode \in Modes, identity \in Identities, md \in Metadatas :
        Send("get_user", "UserGet",
             PyDict(<<Item("mode", PyStr(mode)), Item("identity", PyStr(identity))>>),
             md, MakeRequestHeaders)

create_captcha ==
    \E md \in Metadatas :
        Send("create_captcha", "CaptchaCreate", PyNone, md, MakeRequestHeaders)

UnlockUuids == {"u-1"}

\* what callers pass as the second positional argument of bulk_list_users:
\* an offset, or (as the tests do) a list of {mode, identity} mappings
SecondArguments ==
    { PyInt(0),
      PyList(<<>>),
      PyList(<<PyDict(<<Item("mode", PyStr("email")), Item("identity", PyStr("a"))>>)>>) }

\* bulk_list_users(unlock_uuid, offset=0, limit=10, request_metadata=None)
\* called with two positional arguments: the second is bound to offset
bulk_list_users ==
    \E unlock_uuid \in UnlockUuids, offset \in SecondArguments, md \in Metadatas :
        LET limit == PyInt(10)
            data == PyDict(<<Item("unlockuuid", PyStr(unlock_uuid)),
                             Item("offset", offset),
                             Item("limit", limit)>>)
        IN  /\ StartWith(<<PyStr(unlock_uuid), offset>>,
                         "bulk_list_users", "BulkListUsers", data, md,
                         HttpRequest("POST", EndpointUrl("BulkListUsers"),
                                     MakeRequestHeaders, BuildBody(data, md)))
            /\ UNCHANGED seen

\* the methods of DatabunkerproAPI that this model calls by name
ClientMethods ==
    {"_make_request", "raw_request", "get_user", "create_captcha",
     "bulk_list_unlock", "bulk_list_users", "bulk_list_group_users",
     "get_system_metrics", "_parse_prometheus_metrics", "parse_prometheus_metrics"}

AttributeErrorText(name) ==
    "AttributeError: 'DatabunkerproAPI' object has no attribute '" \o name \o "'"

\* api.bulk_list_all_users(unlock_uuid, offset=..., limit=...): the class
\* defines no such method, so the attribute lookup raises and nothing is sent
bulk_list_all_users ==
    \E unlock_uuid \in UnlockUuids, offset \in {PyInt(0)} :
        /\ "bulk_list_all_users" \notin ClientMethods
        /\ pc # "inflight"
        /\ ncalls < MaxCalls
        /\ ncalls' = ncalls + 1
        /\ pc' = "done"
        /\ call' = Call("bulk_list_all_users", "", PyNone, PyNone)
        /\ args' = <<PyStr(unlock_uuid), offset, PyInt(10)>>
        /\ sent' = NoRequest
        /\ outcome' = NoOutcome
        /\ ret' = Raises(AttributeErrorText("bulk_list_all_users"))
        /\ attempts' = 0
        /\ caller_data' = PyNone
        /\ UNCHANGED <<Config, Scripts, seen, lines_written, parsed, other>>

\* requests.get(f"{self.base_url}/metrics"): no headers, no body, and
\* request_metadata is not used
get_system_metrics ==
    \E md \in Metadatas :
        Start("get_system_metrics", "", PyNone, md,
              HttpRequest("GET", base_url \o <<"/", "metrics">>, NoHeaders, NoBody))

get_system_metrics_returns ==
    \E o \in MetricsOutcomes :
        /\ pc = "inflight"
        /\ call.op = "get_system_metrics"
        /\ pc' = "done"
        /\ outcome' = o
        /\ ret' = GetSystemMetricsResult(o)
        /\ UNCHANGED <<Config, Scripts, call, sent, ncalls, attempts, caller_data, seen,
                       lines_written, parsed, args, other>>

\* the methods that end in `return self._make_request(...)`
DispatchOps == {"_make_request", "get_user", "create_captcha", "bulk_list_users"}

\* a dispatcher that sends the request once more after a transport failure
make_request_returns_Resend ==
    \E o \in Outcomes :
        /\ pc = "inflight"
        /\ call.op \in DispatchOps
        /\ outcome' = o
        /\ IF o.kind = "fail" /\ attempts < 2
           THEN pc' = "inflight" /\ attempts' = attempts + 1 /\ ret' = NoReturn
           ELSE pc' = "done" /\ attempts' = attempts
                /\ ret' = MakeRequestResult(sent.url, o)
        /\ UNCHANGED <<Config, Scripts, call, sent, ncalls, caller_data, seen,
                       lines_written, parsed, args, other>>

make_request_returns ==
    \E o \in Outcomes :
        /\ pc = "inflight"
        /\ call.op \in DispatchOps
        /\ pc' = "done"
        /\ outcome' = o
        /\ ret' = MakeRequestResult(sent.url, o)
        /\ UNCHANGED <<Config, Scripts, call, sent, ncalls, attempts, caller_data, seen,
                       lines_written, parsed, args, other>>

raw_request_returns ==
    \E o \in Outcomes :
        /\ pc = "inflight"
        /\ call.op = "raw_request"
        /\ pc' = "done"
        /\ outcome' = o
        /\ ret' = RawRequestResult(o)
        /\ UNCHANGED <<Config, Scripts, call, sent, ncalls, attempts, caller_data, seen,
                       lines_written, parsed, args, other>>

Next ==
    \/ make_request
    \/ raw_request
    \/ get_user
    \/ create_captcha
    \/ get_system_metrics
    \/ bulk_list_users
    \/ bulk_list_all_users
    \/ make_request_returns
    \/ raw_request_returns
    \/ get_system_metrics_returns

Spec == Init /\ [][Next]_vars

-----------------------------------------------------------------------------
\* Endpoint methods that shape their body from references and options.

\* the strings this model passes as names and ids, as their characters
KnownTexts ==
    { <<>>, <<"1", "2">>, <<"a", "d", "m", "i", "n", "s">>, <<"5">>, <<"-", "1">> }

Characters(s) == CHOOSE cs \in KnownTexts : Str(cs) = s

\* str(v)
StrChars(v) == IF v.t = "none" THEN <<"N", "o", "n", "e">> ELSE Characters(v.s)

\* cs.isdigit(): at least one character, and all of them digits
IsDigit(cs) == cs # <<>> /\ \A i \in 1..Len(cs) : cs[i] \in Digits

RECURSIVE DictUpdate(_, _)
\* d.update(o), also {**d, **o}: the items of o are set in d in their order
DictUpdate(d, o) ==
    IF o.m = <<>> THEN d
    ELSE DictUpdate(DictSet(d, o.m[1].k, o.m[1].v), PyDict(Tail(o.m)))

\* a reference key decided by str(x).isdigit() alone
SetReference_DigitsOnly(data, v, idkey, namekey, namevalue) ==
    IF IsDigit(StrChars(v)) THEN DictSet(data, idkey, v)
    ELSE DictSet(data, namekey, namevalue)

\* if isinstance(x, int) or str(x).isdigit(): data[idkey] = x
\* else: data[namekey] = namevalue
SetReference(data, v, idkey, namekey, namevalue) ==
    IF v.t = "int" \/ IsDigit(StrChars(v)) THEN DictSet(data, idkey, v)
    ELSE DictSet(data, namekey, namevalue)

\* what callers pass as a group, role, policy or connector reference
References == { PyInt(5), PyInt(-1), PyStr("12"), PyStr("admins"), PyStr("") }

\* request metadata of the calls below: absent, or a non-empty mapping
ShapeMetadatas == { PyNone, MetaSrc }

\* the request of an endpoint method called with the arguments positional
Shaped(positional, op, endpoint, data, request_metadata) ==
    /\ StartWith(positional, op, endpoint, data, request_metadata,
                 HttpRequest("POST", EndpointUrl(endpoint), MakeRequestHeaders,
                             BuildBody(data, request_metadata)))
    /\ UNCHANGED seen

ModeIdentity(mode, identity) ==
    PyDict(<<Item("mode", PyStr(mode)), Item("identity", PyStr(identity))>>)

add_user_to_group ==
    \E mode \in Modes, identity \in Identities, group_name \in References,
       role_name \in References \cup {PyNone}, md \in ShapeMetadatas :
        LET grouped == SetReference(ModeIdentity(mode, identity), group_name,
                                    "groupid", "groupname", PyStr(Str(StrChars(group_name))))
            data == IF role_name # PyNone
                    THEN SetReference(grouped, role_name, "roleid", "rolename",
                                      PyStr(Str(StrChars(role_name))))
                    ELSE grouped
        IN  Shaped(<<PyStr(mode), PyStr(identity), group_name, role_name>>,
                   "add_user_to_group", "GroupAddUser", data, md)

bulk_list_group_users ==
    \E unlock_uuid \in UnlockUuids, group_name \in References, md \in ShapeMetadatas :
        LET data == SetReference(PyDict(<<Item("unlockuuid", PyStr(unlock_uuid)),
                                          Item("offset", PyInt(0)),
                                          Item("limit", PyInt(10))>>),
                                 group_name, "groupid", "groupname",
                                 PyStr(Str(StrChars(group_name))))
        IN  Shaped(<<PyStr(unlock_uuid), group_name>>,
                   "bulk_list_group_users", "BulkListGroupUsers", data, md)

delete_connector ==
    \E connector_id \in References, md \in ShapeMetadatas :
        Shaped(<<connector_id>>, "delete_connector", "ConnectorDelete",
               SetReference(PyDict(<<>>), connector_id,
                            "connectorid", "connectorname", connector_id), md)

\* the body of the three connector_*_user* methods
ConnectorUserData(mode, identity, connector_id) ==
    SetReference(ModeIdentity(mode, identity), connector_id,
                 "connectorid", "connectorname", connector_id)

connector_get_user_data ==
    \E mode \in Modes, identity \in Identities, connector_id \in References,
       md \in ShapeMetadatas :
        Shaped(<<PyStr(mode), PyStr(identity), connector_id>>,
               "connector_get_user_data", "ConnectorGetUserData",
               ConnectorUserData(mode, identity, connector_id), md)

connector_get_user_extra_data ==
    \E mode \in Modes, identity \in Identities, connector_id \in References,
       md \in ShapeMetadatas :
        Shaped(<<PyStr(mode), PyStr(identity), connector_id>>,
               "connector_get_user_extra_data", "ConnectorGetUserExtraData",
               ConnectorUserData(mode, identity, connector_id), md)

connector_delete_user ==
    \E mode \in Modes, identity \in Identities, connector_id \in References,
       md \in ShapeMetadatas :
        Shaped(<<PyStr(mode), PyStr(identity), connector_id>>,
               "connector_delete_user", "ConnectorDeleteUser",
               ConnectorUserData(mode, identity, connector_id), md)

\* free-form options: empty, an ordinary option, or one option whose key is
\* also a key under which the methods below send an identifying argument
OptionsMappings ==
    { PyDict(<<>>), PyDict(<<Item("finaltime", PyStr("1y"))>>) }
    \cup { PyDict(<<Item(k, PyStr("other"))>>) :
             k \in { "mode", "identity", "requestuuid", "tokentype", "record",
                     "tenantid", "brief", "connectorid", "activity", "groupid",
                     "groupname", "roleid", "rolename", "policyid", "policyname" } }

\* if options: data.update(options)
WithOptions(data, options) ==
    IF Truthy(options) THEN DictUpdate(data, options) ELSE data

create_x_token ==
    \E mode \in Modes, identity \in Identities,
       options \in OptionsMappings \cup {PyNone}, md \in ShapeMetadatas :
        Shaped(<<PyStr(mode), PyStr(identity), options>>,
               "create_x_token", "XTokenCreate",
               WithOptions(ModeIdentity(mode, identity), options), md)

create_session ==
    \E mode \in Modes, identity \in Identities,
       options \in OptionsMappings \cup {PyNone}, md \in ShapeMetadatas :
        Shaped(<<PyStr(mode), PyStr(identity), options>>,
               "create_session", "SessionUpsert",
               WithOptions(ModeIdentity(mode, identity), options), md)

create_token ==
    \E token_type \in {"creditcard"}, record \in {"4111"},
       options \in OptionsMappings \cup {PyNone}, md \in ShapeMetadatas :
        Shaped(<<PyStr(token_type), PyStr(record), options>>,
               "create_token", "TokenCreate",
               WithOptions(PyDict(<<Item("tokentype", PyStr(token_type)),
                                    Item("record", PyStr(record))>>), options), md)

cancel_user_request ==
    \E request_uuid \in UnlockUuids,
       options \in OptionsMappings \cup {PyNone}, md \in ShapeMetadatas :
        Shaped(<<PyStr(request_uuid), options>>,
               "cancel_user_request", "UserRequestCancel",
               WithOptions(PyDict(<<Item("requestuuid", PyStr(request_uuid))>>),
                           options), md)

update_group ==
    \E group_id \in References, options \in OptionsMappings \cup {PyNone},
       md \in ShapeMetadatas :
        Shaped(<<group_id, options>>, "update_group", "GroupUpdate",
               WithOptions(SetReference(PyDict(<<>>), group_id,
                                        "groupid", "groupname", group_id),
                           options), md)

update_role ==
    \E role_id \in References, options \in OptionsMappings \cup {PyNone},
       md \in ShapeMetadatas :
        Shaped(<<role_id, options>>, "update_role", "RoleUpdate",
               WithOptions(SetReference(PyDict(<<>>), role_id,
                                        "roleid", "rolename", role_id),
                           options), md)

update_policy ==
    \E policy_id \in References, options \in OptionsMappings \cup {PyNone},
       md \in ShapeMetadatas :
        Shaped(<<policy_id, options>>, "update_policy", "PolicyUpdate",
               WithOptions(SetReference(PyDict(<<>>), policy_id,
                                        "policyid", "policyname", policy_id),
                           options), md)

\* the methods below take options without a default and spread or update
\* it unconditionally
update_tenant ==
    \E tenant_id \in References, options \in OptionsMappings, md \in ShapeMetadatas :
        Shaped(<<tenant_id, options>>, "update_tenant", "TenantUpdate",
               DictUpdate(PyDict(<<Item("tenantid", tenant_id)>>), options), md)

update_legal_basis ==
    \E brief \in {"consent"}, options \in OptionsMappings, md \in ShapeMetadatas :
        Shaped(<<PyStr(brief), options>>, "update_legal_basis", "LegalBasisUpdate",
               DictUpdate(PyDict(<<Item("brief", PyStr(brief))>>), options), md)

update_connector ==
    \E connector_id \in References, options \in OptionsMappings, md \in ShapeMetadatas :
        Shaped(<<connector_id, options>>, "update_connector", "ConnectorUpdate",
               DictUpdate(PyDict(<<Item("connectorid", connector_id)>>), options), md)

update_processing_activity ==
    \E activity \in {"marketing"}, options \in OptionsMappings, md \in ShapeMetadatas :
        Shaped(<<PyStr(activity), options>>,
               "update_processing_activity", "ProcessingActivityUpdate",
               DictUpdate(PyDict(<<Item("activity", PyStr(activity))>>), options), md)

\* group and role references in the options of create_user and in the
\* records of create_users_bulk: each key absent, all digits or a name
ReferenceOptions ==
    LET items(k) == { <<>>, <<Item(k, PyStr("12"))>>, <<Item(k, PyStr("admins"))>> }
    IN  { gn \o gi \o rn \o ri : gn \in items("groupname"), gi \in items("groupid"),
                                 rn \in items("rolename"), ri \in items("roleid") }

Profiles == { PyDict(<<Item("email", PyStr("a"))>>) }

TimeOptions ==
    { <<>>, <<Item("finaltime", PyStr("1y"))>>,
      <<Item("slidingtime", PyStr("30d")), Item("finaltime", PyStr("1y"))>> }

\* if key in options: data[key] = options[key]
CopyKey(data, options, key) ==
    IF DictHas(options, key) THEN DictSet(data, key, DictGet(options, key, PyNone))
    ELSE data

\* lines 146-151 and 153-158: the name key decides, the id key is looked at
\* only when the name key is absent
NameElseId(data, options, namekey, idkey) ==
    IF DictHas(options, namekey)
    THEN DictSet(data,
                 IF IsDigit(StrChars(DictGet(options, namekey, PyNone)))
                 THEN idkey ELSE namekey,
                 DictGet(options, namekey, PyNone))
    ELSE CopyKey(data, options, idkey)

\* lines 144-165
CreateUserData(profile, options) ==
    LET data == PyDict(<<Item("profile", profile)>>)
    IN  IF Truthy(options)
        THEN CopyKey(CopyKey(NameElseId(NameElseId(data, options,
                                                   "groupname", "groupid"),
                                        options, "rolename", "roleid"),
                             options, "slidingtime"),
                     options, "finaltime")
        ELSE data

create_user ==
    \E profile \in Profiles,
       options \in { PyDict(r \o t) : r \in ReferenceOptions, t \in TimeOptions }
                   \cup {PyNone},
       md \in ShapeMetadatas :
        Shaped(<<profile, options>>, "create_user", "UserCreate",
               CreateUserData(profile, options), md)

\* lines 190-199 and 202-211: the name key, spread under the id key when its
\* value is all digits
NameSpread(entry, record, namekey, idkey) ==
    IF DictHas(record, namekey)
    THEN DictSet(entry,
                 IF IsDigit(StrChars(DictGet(record, namekey, PyStr(""))))
                 THEN idkey ELSE namekey,
                 DictGet(record, namekey, PyNone))
    ELSE entry

\* an entry that is the whole input record
BulkRecord_WholeRecord(record) == record

\* lines 188-213: one entry of the records list
BulkRecord(record) ==
    CopyKey(NameSpread(CopyKey(NameSpread(PyDict(<<Item("profile",
                                                        DictGet(record, "profile", PyNone))>>),
                                          record, "groupname", "groupid"),
                               record, "groupid"),
                       record, "rolename", "roleid"),
            record, "roleid")

\* lines 186-223
CreateUsersBulkData(records, options) ==
    LET data == PyDict(<<Item("records",
                              PyList([i \in 1..Len(records) |-> BulkRecord(records[i])]))>>)
    IN  IF Truthy(options)
        THEN CopyKey(CopyKey(data, options, "finaltime"), options, "slidingtime")
        ELSE data

\* the records of a bulk creation: one record with any references, or up to
\* MaxRecords records of which some carry keys the endpoint does not know
RecordLists ==
    LET listed ==
            { PyDict(<<Item("profile", PyDict(<<Item("email", PyStr("a"))>>))>>),
              PyDict(<<Item("profile", PyDict(<<Item("email", PyStr("b"))>>)),
                       Item("note", PyStr("vip"))>>),
              PyDict(<<Item("token", PyStr("t")),
                       Item("profile", PyDict(<<Item("email", PyStr("a"))>>)),
                       Item("groupname", PyStr("admins"))>>) }
    IN  { <<PyDict(<<Item("profile", p)>> \o r)>> : p \in Profiles, r \in ReferenceOptions }
        \cup UNION { [1..n -> listed] : n \in 0..MaxRecords }

create_users_bulk ==
    \E records \in RecordLists,
       options \in { PyDict(t) : t \in TimeOptions } \cup {PyNone},
       md \in ShapeMetadatas :
        Shaped(<<PyList(records), options>>, "create_users_bulk", "UserCreateBulk",
               CreateUsersBulkData(records, options), md)

\* One call of a body-shaping method on a fresh client.
NextShape ==
    \/ create_user
    \/ create_users_bulk
    \/ add_user_to_group
    \/ bulk_list_group_users
    \/ delete_connector
    \/ connector_get_user_data
    \/ connector_get_user_extra_data
    \/ connector_delete_user
    \/ create_x_token
    \/ create_token
    \/ create_session
    \/ cancel_user_request
    \/ update_group
    \/ update_role
    \/ update_policy
    \/ update_tenant
    \/ update_legal_basis
    \/ update_connector
    \/ update_processing_activity

SpecShape == Init /\ [][NextShape]_vars

-----------------------------------------------------------------------------
\* bulk_user_fetcher.py: the tokens of user_tokens.txt are fetched in batches,
\* each batch as one asyncio.gather over fetch_user coroutines.

\* the lines f.readlines() gives: a token and its newline, a last line
\* without one, a blank line
TokenLines == { <<"t", "1", "\n">>, <<"t", "2">>, <<"\n">> }

\* fetch_users_batch(api, tokens, batch_size): the script passes a non-empty
\* list, and no batch_size (it is 100; BatchSize here)
TokenFiles == UNION { [1..n -> TokenLines] : n \in 1..MaxTokens }

RECURSIVE StripEnd(_)
StripEnd(cs) ==
    IF cs # <<>> /\ cs[Len(cs)] \in Whitespace
    THEN StripEnd(SubSeq(cs, 1, Len(cs) - 1)) ELSE cs

\* token.strip()
Strip(cs) == StripEnd(Drop(cs, PrefixLen(cs, Whitespace)))

\* main has built the client, read the tokens and set stats["start_time"]
InitFetch ==
    /\ ClientInit
    /\ \E tokens \in TokenFiles :
          fetcher = [FetcherIdle EXCEPT !.pc = "loop", !.tokens = tokens]
    /\ creator = CreatorIdle

\* api.get_user(*positional): get_user(self, mode, identity,
\* request_metadata=None) needs two positional arguments; with fewer the
\* call raises TypeError before the method body runs, with two it goes to
\* UserGet through _make_request and the server answers with o
GetUserCall(positional, o) ==
    IF Len(positional) < 2
    THEN Raises("TypeError: DatabunkerproAPI.get_user() missing 1 required "
                \o "positional argument: 'identity'")
    ELSE MakeRequestResult(EndpointUrl("UserGet"), o)

\* a fetch_user whose except branch leaves the counters alone
FetchUserCounts_RaiseUncounted(r) ==
    IF r.kind = "raise" THEN [total_fetched |-> 0, errors |-> 0]
    ELSE IF Truthy(r.val) /\ DictGet(r.val, "status", PyNone) = PyStr("ok")
    THEN [total_fetched |-> 1, errors |-> 0]
    ELSE [total_fetched |-> 0, errors |-> 1]

\* lines 21-33: what one fetch_user adds to the counters when get_user
\* ends with r.  A falsy result that is no mapping is counted at line 27 and,
\* result.get failing at line 28, again at line 31.
FetchUserCounts(r) ==
    IF r.kind = "raise" THEN [total_fetched |-> 0, errors |-> 1]
    ELSE IF Truthy(r.val) /\ r.val.t # "dict" THEN [total_fetched |-> 0, errors |-> 1]
    ELSE IF Truthy(r.val) /\ DictGet(r.val, "status", PyNone) = PyStr("ok")
    THEN [total_fetched |-> 1, errors |-> 0]
    ELSE IF r.val.t # "dict" THEN [total_fetched |-> 0, errors |-> 2]
    ELSE [total_fetched |-> 0, errors |-> 1]

\* get_user returned a mapping with status ok
ReturnedOk(r) ==
    r.kind = "value" /\ DictGet(r.val, "status", PyNone) = PyStr("ok")

\* lines 37-40: the next batch is sliced and its coroutines are handed to
\* asyncio.gather, or the loop is over and fetch_users_batch returns
fetch_users_batch ==
    /\ fetcher.pc = "loop"
    /\ LET tokens == fetcher.tokens
           i == fetcher.i
           last == IF i + BatchSize < Len(tokens) THEN i + BatchSize ELSE Len(tokens)
       IN  fetcher' = IF i < Len(tokens)
                      THEN [fetcher EXCEPT !.pc = "gather",
                                           !.tasks = [k \in (i + 1)..last |-> "ready"]]
                      ELSE [fetcher EXCEPT !.pc = "returned"]
    /\ UNCHANGED <<Config, pc, call, sent, outcome, ret, ncalls, attempts,
                   caller_data, seen, lines_written, parsed, args, other, creator>>

\* lines 19-33: the event loop runs one coroutine of the batch.  fetch_user
\* has no await and get_user is a blocking call, so the coroutine runs from
\* its first line to its return in one step of the loop.
fetch_user ==
    /\ fetcher.pc = "gather"
    /\ \E k \in DOMAIN fetcher.tasks, o \in Outcomes :
          /\ fetcher.tasks[k] = "ready"
          /\ LET token == Str(Strip(fetcher.tokens[k]))
                 r == GetUserCall(<<PyStr(token)>>, o)
                 counts == FetchUserCounts(r)
             IN  fetcher' =
                   [fetcher EXCEPT
                      !.tasks[k] = "done",
                      !.stats = [total_fetched |-> @.total_fetched + counts.total_fetched,
                                 errors |-> @.errors + counts.errors],
                      !.fetched = Append(@, [k |-> k, token |-> token]),
                      !.ok = IF ReturnedOk(r) THEN @ + 1 ELSE @]
    /\ UNCHANGED <<Config, pc, call, sent, outcome, ret, ncalls, attempts,
                   caller_data, seen, lines_written, parsed, args, other, creator>>

\* lines 41-47: gather is over; the progress line divides by the minutes
\* since stats["start_time"], which are 0.0 when time.time() has not advanced
batch_progress ==
    /\ fetcher.pc = "gather"
    /\ \A k \in DOMAIN fetcher.tasks : fetcher.tasks[k] = "done"
    /\ \E elapsed_time \in {0, 1} :
          fetcher' = IF elapsed_time = 0
                     THEN [fetcher EXCEPT !.pc = "ZeroDivisionError"]
                     ELSE [fetcher EXCEPT !.pc = "loop", !.i = @ + BatchSize]
    /\ UNCHANGED <<Config, pc, call, sent, outcome, ret, ncalls, attempts,
                   caller_data, seen, lines_written, parsed, args, other, creator>>

NextFetch == fetch_users_batch \/ fetch_user \/ batch_progress

SpecFetch == InitFetch /\ [][NextFetch]_vars

\* asyncio.run drives the script until main ends: a step that can be taken
\* is taken
SpecFetchFair == SpecFetch /\ WF_vars(NextFetch)

-----------------------------------------------------------------------------
\* bulk_user_creator.py: batches of users are created with create_users_bulk
\* and a sample of each batch's tokens is appended to user_tokens.txt.

TokenLetters == <<"a", "b", "c", "d", "e", "f", "g", "h", "i", "j", "k", "l">>

\* the token the server gives the j-th user it creates in a batch
ServerToken(batch, j) == <<"u", TokenLetters[batch + 1], TokenLetters[j]>>

\* the characters of a token the server gave
TokenChars(s) ==
    CHOOSE cs \in { ServerToken(b, j) : b \in 0..NumBatches, j \in 1..Len(TokenLetters) } :
        Str(cs) = s

\* the answers to the create_users_bulk of a batch: n users created, an
\* error mapping, a JSON value that is no mapping, an undecodable body, an
\* HTTP error, a transport failure
BatchOutcomes(batch) ==
    LET created(n) ==
            PyDict(<<Item("status", PyStr("ok")),
                     Item("created",
                          PyList([j \in 1..n |->
                                    PyDict(<<Item("token",
                                                  PyStr(Str(ServerToken(batch, j))))>>)]))>>)
    IN  { Response(200, JsonDumps(created(n))) : n \in {0, 1, SampleSize + 1} }
        \cup { Response(200, JsonDumps(BodyDenied)), Response(200, <<StrTok("plain")>>),
               Response(200, <<Punct("{"), StrTok("status")>>),
               Response(500, JsonDumps(BodyBoom)) }
        \cup { Failure(e) : e \in TransportErrors }

\* random.sample(population, k): k distinct elements in some order; of the
\* orders the first k as they stand and the last k backwards are explored
Samples(population, k) ==
    LET n == Len(population) IN
    { SubSeq(population, 1, k), [p \in 1..k |-> population[n + 1 - p]] }

RECURSIVE Join(_, _)
\* sep.join(parts)
Join(parts, sep) ==
    IF parts = <<>> THEN <<>>
    ELSE IF Len(parts) = 1 THEN parts[1]
    ELSE parts[1] \o sep \o Join(Tail(parts), sep)

\* main has built the client and create_bulk_users starts with no tokens
InitCreate ==
    /\ ClientInit
    /\ fetcher = FetcherIdle
    /\ creator = [CreatorIdle EXCEPT !.pc = "loop"]

\* lines 30-59: one pass of the loop.  create_users_bulk goes to
\* UserCreateBulk through _make_request; result.get fails on a result that
\* is no mapping, and an exception of the call itself is not caught.
create_batch ==
    /\ creator.pc = "loop"
    /\ creator.batch < NumBatches
    /\ \E o \in BatchOutcomes(creator.batch) :
          LET r == MakeRequestResult(EndpointUrl("UserCreateBulk"), o)
              result == r.val
              created_users == DictGet(result, "created", PyList(<<>>))
              tokens == [j \in 1..Len(created_users.m) |->
                           TokenChars(DictGet(created_users.m[j], "token", PyNone).s)]
              k == IF SampleSize < Len(tokens) THEN SampleSize ELSE Len(tokens)
              called == [creator EXCEPT !.results = Append(@, r)]
          IN  IF r.kind = "raise"
              THEN creator' = [called EXCEPT !.pc = r.exc]
              ELSE IF result.t # "dict"
              THEN creator' = [called EXCEPT !.pc = "AttributeError"]
              ELSE IF DictGet(result, "status", PyNone) = PyStr("ok")
                      /\ Truthy(created_users)
              THEN \E batch_tokens \in Samples(tokens, k) :
                      creator' = [called EXCEPT !.batch = @ + 1,
                                                !.all_tokens = @ \o batch_tokens,
                                                !.file = Join(creator.all_tokens \o batch_tokens,
                                                              <<"\n">>),
                                                !.written = TRUE]
              ELSE creator' = [called EXCEPT !.batch = @ + 1]
    /\ UNCHANGED <<Config, pc, call, sent, outcome, ret, ncalls, attempts,
                   caller_data, seen, lines_written, parsed, args, other, fetcher>>

\* line 61: return all_tokens
create_bulk_users_returns ==
    /\ creator.pc = "loop"
    /\ creator.batch = NumBatches
    /\ creator' = [creator EXCEPT !.pc = "returned"]
    /\ UNCHANGED <<Config, pc, call, sent, outcome, ret, ncalls, attempts,
                   caller_data, seen, lines_written, parsed, args, other, fetcher>>

NextCreate == create_batch \/ create_bulk_users_returns

SpecCreate == InitCreate /\ [][NextCreate]_vars

-----------------------------------------------------------------------------
\* parse_prometheus_metrics as a function of its argument: a client is
\* constructed, a text is chosen, and the method is applied to it.
InitParse ==
    /\ \E u \in BaseUrls : base_url = Rstrip(u)
    /\ x_bunker_token \in Tokens
    /\ x_bunker_tenant \in Tenants
    /\ json_error_is_request_exception \in BOOLEAN
    /\ pc = "idle"
    /\ call = NoCall
    /\ sent = NoRequest
    /\ outcome = NoOutcome
    /\ ret = NoReturn
    /\ ncalls = 0
    /\ attempts = 0
    /\ caller_data = PyNone
    /\ seen = [c \in TrackedCalls |-> NotSeen]
    /\ lines_written \in TextsToParse
    /\ parsed = NoReturn
    /\ args = <<>>
    /\ other = OtherIdle
    /\ fetcher = FetcherIdle
    /\ creator = CreatorIdle

\* what parse_prometheus_metrics(text) gives its caller
ParseResult(text) ==
    LET r == ParsePrometheusMetrics(text)
    IN  IF r.ok THEN Returns(r.val) ELSE Raises("ValueError: " \o r.exc)

parse_prometheus_metrics ==
    /\ parsed = NoReturn
    /\ parsed' = ParseResult(TextOfLines(lines_written))
    /\ UNCHANGED <<Config, Scripts, pc, call, sent, outcome, ret, ncalls, attempts,
                   caller_data, seen, lines_written, args, other>>

NextParse == parse_prometheus_metrics

SpecParse == InitParse /\ [][NextParse]_vars

\* the request that lines 54-69 (_make_request) or 108-121 (raw_request)
\* build for the call c
RequestFor(c) ==
    HttpRequest("POST", EndpointUrl(c.endpoint),
                IF c.op = "raw_request" THEN RawRequestHeaders ELSE MakeRequestHeaders,
                BuildBody(c.data, c.request_metadata))

\* Repeated calls.  The tracked calls are made any number of times, with
\* other calls in between, and the request of the first call of each is
\* remembered.
tracked_call ==
    \E c \in TrackedCalls :
        /\ StartWith(<<>>, c.op, c.endpoint, c.data, c.request_metadata, RequestFor(c))
        /\ seen' = Remember(c, RequestFor(c))

NextRepeat ==
    \/ tracked_call
    \/ create_captcha
    \/ get_system_metrics
    \/ make_request_returns
    \/ raw_request_returns
    \/ get_system_metrics_returns

SpecRepeat == Init /\ [][NextRepeat]_vars

\* Two threads on one client.  The first makes the calls of NextRepeat; the
\* second makes one call, at any moment of the first thread's calls.  Its
\* locals are its own and the attributes of the client are the only thing
\* the two share.
OtherOutcomes ==
    { Failure("Connection refused"),
      Response(200, JsonDumps(BodyOkProfile)),
      Response(500, JsonDumps(BodyBoom)) }

\* a client that keeps one headers dict on the instance and updates it in
\* every call
other_calls_SharedHeaders ==
    \E c \in TrackedCalls :
        /\ other.pc = "idle"
        /\ ncalls < MaxCalls
        /\ ncalls' = ncalls + 1
        /\ other' = Frame("inflight", c,
                          HttpRequest("POST", EndpointUrl(c.endpoint),
                                      sent.headers
                                      @@ (IF c.op = "raw_request" THEN RawRequestHeaders
                                          ELSE MakeRequestHeaders),
                                      BuildBody(c.data, c.request_metadata)),
                          NoOutcome, NoReturn)
        /\ UNCHANGED <<Config, Scripts, pc, call, sent, outcome, ret, attempts,
                       caller_data, seen, lines_written, parsed, args>>

other_calls ==
    \E c \in TrackedCalls :
        /\ other.pc = "idle"
        /\ ncalls < MaxCalls
        /\ ncalls' = ncalls + 1
        /\ other' = Frame("inflight", c, RequestFor(c), NoOutcome, NoReturn)
        /\ UNCHANGED <<Config, Scripts, pc, call, sent, outcome, ret, attempts,
                       caller_data, seen, lines_written, parsed, args>>

other_returns ==
    \E o \in OtherOutcomes :
        /\ other.pc = "inflight"
        /\ other' = [other EXCEPT !.pc = "done", !.outcome = o,
                                  !.ret = IF other.call.op = "raw_request"
                                          THEN RawRequestResult(o)
                                          ELSE MakeRequestResult(other.sent.url, o)]
        /\ UNCHANGED <<Config, Scripts, pc, call, sent, outcome, ret, ncalls, attempts,
                       caller_data, seen, lines_written, parsed, args>>

NextConcurrent ==
    \/ NextRepeat
    \/ other_calls
    \/ other_returns

SpecConcurrent == Init /\ [][NextConcurrent]_vars

TypeOK ==
    /\ ncalls \in 0..MaxCalls
    /\ pc \in {"idle", "inflight", "done"}
    /\ ret.kind \in {"none", "value", "bytes", "raise"}
    /\ DictCopy(PyDict(<<>>)) = PyDict(<<>>)
    /\ \A d \in Payloads \ {PyNone} : JsonLoads(JsonDumps(d)).val = d
    /\ fetcher.pc \in {"idle", "loop", "gather", "returned", "ZeroDivisionError"}
    /\ fetcher.i \in 0..(MaxTokens + BatchSize)
    /\ \A k \in DOMAIN fetcher.tasks : fetcher.tasks[k] \in {"ready", "done"}
    /\ creator.pc \in {"idle", "loop", "returned", "AttributeError", "JSONDecodeError"}
    /\ creator.batch \in 0..NumBatches

-----------------------------------------------------------------------------
\* Properties

DispatchDone == pc = "done" /\ call.op \in DispatchOps

RawDone == pc = "done" /\ call.op = "raw_request"

TransportFailed == outcome.kind = "fail"

Responded == outcome.kind = "resp"

Is2xx(code) == 200 <= code /\ code < 300

\* the JSON objects a server in this model can answer with
ServerObjects == { BodyOkProfile, BodyBoom, BodyDenied, PyDict(<<>>) }

ReturnsMapping == ret.kind = "value" /\ ret.val.t = "dict"

C2_Non2xxWithoutStatusSynthesized ==
    \A b \in ServerObjects :
        (/\ DispatchDone /\ Responded
         /\ ~Is2xx(outcome.code)
         /\ outcome.content = JsonDumps(b)
         /\ ~DictHas(b, "status"))
        => ret = Returns(PyDict(<<Item("status", PyStr("error")),
                                  Item("message", DictGet(b, "message",
                                                          PyStr("API request failed")))>>))

\* C3: a non-2xx response whose JSON body has a status field is returned
\* unchanged.
C3_Non2xxWithStatusPassedThrough ==
    \A b \in ServerObjects :
        (/\ DispatchDone /\ Responded
         /\ ~Is2xx(outcome.code)
         /\ outcome.content = JsonDumps(b)
         /\ DictHas(b, "status"))
        => ret = Returns(b)

\* C4: a 2xx response carrying a JSON object is returned as exactly that
\* mapping: same keys, same values, the server's own status or none.
C4_SuccessReturnedVerbatim ==
    \A b \in ServerObjects :
        (/\ DispatchDone /\ Responded
         /\ Is2xx(outcome.code)
         /\ outcome.content = JsonDumps(b))
        => ret = Returns(b)

C4_Witness ==
    /\ DispatchDone /\ call.op = "get_user"
    /\ call.data = PyDict(<<Item("mode", PyStr("email")), Item("identity", PyStr("a"))>>)
    /\ outcome = Response(200, JsonDumps(BodyOkProfile))
    /\ ret = Returns(BodyOkProfile)

MetricsDone == pc = "done" /\ call.op = "get_system_metrics"

HasStatus == ReturnsMapping /\ DictHas(ret.val, "status")

IsHttpError(code) == 400 <= code /\ code < 600

\* C5 as stated: every non-raw call returns a mapping with a status field,
\* for every server response and every transport outcome.
C5_EveryCallHasStatus ==
    (DispatchDone \/ MetricsDone) => HasStatus

\* C5 amended: a call through _make_request returns a mapping with a status
\* field when the transport fails, when the server answers 4xx or 5xx (the
\* status is then "error"), and when a response with another code carries a
\* JSON object that has a status field; get_system_metrics returns a mapping
\* with a status field when its request fails.
C5_StatusOnFailureOrFromServer ==
    /\ (DispatchDone /\ (TransportFailed \/ (Responded /\ IsHttpError(outcome.code))))
          => (HasStatus /\ DictGet(ret.val, "status", PyNone) = PyStr("error"))
    /\ \A b \in ServerObjects :
          (/\ DispatchDone /\ Responded /\ ~IsHttpError(outcome.code)
           /\ outcome.content = JsonDumps(b)
           /\ DictHas(b, "status"))
          => (HasStatus /\ DictGet(ret.val, "status", PyNone) = DictGet(b, "status", PyNone))
    /\ (MetricsDone /\ TransportFailed)
          => (HasStatus /\ DictGet(ret.val, "status", PyNone) = PyStr("error"))

C5_Witness ==
    /\ MetricsDone /\ TransportFailed
    /\ HasStatus

\* C6: raw_request never raises for a remote failure; a transport failure
\* is returned as a value.
C6_RawRequestNeverRaises ==
    RawDone => ret.kind # "raise"

\* C7: raw_request returns the response content exactly as received, for
\* every status code and every content: nothing is decoded, nothing is
\* replaced by an error mapping, nothing is raised.
C7_RawReturnsContentUnchanged ==
    (RawDone /\ Responded) => ret = ReturnsBytes(outcome.content)

C7_Witness ==
    /\ RawDone
    /\ outcome = Response(500, JsonDumps(BodyBoom))
    /\ ret.kind = "bytes" /\ ret.content = JsonDumps(BodyBoom)

\* what _make_request sends for the arguments of the current call
MakeRequestWouldSend ==
    HttpRequest("POST", EndpointUrl(call.endpoint), MakeRequestHeaders,
                BuildBody(call.data, call.request_metadata))

\* C8: raw_request sends the URL, headers and body that _make_request sends
\* for the same arguments, for every client configuration.
C8_RawSendsSameRequest ==
    (pc # "idle" /\ call.op = "raw_request") => sent = MakeRequestWouldSend

\* a call of _make_request (directly or by an endpoint method) or raw_request
\* has built its request
CallStarted ==
    pc \in {"inflight", "done"} /\ call.op \in DispatchOps \cup {"raw_request"}

BodyIsJsonObject ==
    /\ sent.body.present
    /\ JsonLoads(sent.body.text).ok
    /\ JsonLoads(sent.body.text).val.t = "dict"

\* C9: with payload and metadata both absent the request has no body at
\* all; with at least one of them present and non-empty it has a JSON body.
C9_NoBodyWhenNothingToSend ==
    CallStarted =>
        /\ (call.data = PyNone /\ call.request_metadata = PyNone)
              => sent.body = NoBody
        /\ (Truthy(call.data) \/ Truthy(call.request_metadata))
              => BodyIsJsonObject

C9_Witness ==
    /\ CallStarted /\ call.op = "create_captcha"
    /\ call.request_metadata = PyNone
    /\ ~sent.body.present

SentObject == JsonLoads(sent.body.text).val

\* the body carries request_metadata = the metadata of the call, and every
\* other payload key with its value
BodyCarriesMetadataAndPayload ==
    /\ BodyIsJsonObject
    /\ DictHas(SentObject, "request_metadata")
    /\ DictGet(SentObject, "request_metadata", PyNone) = call.request_metadata
    /\ call.data.t = "dict" =>
         \A k \in DictKeys(call.data) \ {"request_metadata"} :
            /\ DictHas(SentObject, k)
            /\ DictGet(SentObject, k, PyNone) = DictGet(call.data, k, PyNone)

DispatchStarted == pc \in {"inflight", "done"} /\ call.op \in DispatchOps

\* C11: every endpoint method that goes through _make_request POSTs to
\* exactly base_url + "/v2/" + operation name, base_url being the
\* constructor argument without its trailing slashes, so that no slash
\* precedes the one before v2.
C11_UrlIsBaseV2Endpoint ==
    DispatchStarted =>
        /\ sent.method = "POST"
        /\ \E u \in BaseUrls :
              /\ base_url = Rstrip(u)
              /\ sent.url = Rstrip(u) \o <<"/", "v2", "/", call.endpoint>>
        /\ Len(sent.url) >= 5
        /\ sent.url[Len(sent.url) - 4] # "/"
        /\ SubSeq(sent.url, Len(sent.url) - 3, Len(sent.url))
             = <<"/", "v2", "/", call.endpoint>>

C11_Witness ==
    /\ DispatchStarted /\ call.op = "get_user"
    /\ sent.url = <<"http:", "/", "/", "host", "/", "v2", "/", "UserGet">>

\* C12: the headers of a _make_request call are exactly Content-Type:
\* application/json, X-Bunker-Token iff a non-empty token is configured and
\* X-Bunker-Tenant iff a non-empty tenant is configured, each with the
\* configured value.
C12_HeadersExactly ==
    DispatchStarted =>
        /\ DOMAIN sent.headers =
              {"Content-Type"}
              \cup (IF x_bunker_token # "" THEN {"X-Bunker-Token"} ELSE {})
              \cup (IF x_bunker_tenant # "" THEN {"X-Bunker-Tenant"} ELSE {})
        /\ sent.headers["Content-Type"] = "application/json"
        /\ x_bunker_token # "" => sent.headers["X-Bunker-Token"] = x_bunker_token
        /\ x_bunker_tenant # "" => sent.headers["X-Bunker-Tenant"] = x_bunker_tenant

C12_Witness ==
    /\ DispatchStarted
    /\ x_bunker_token = "tok" /\ x_bunker_tenant = ""
    /\ DOMAIN sent.headers = {"Content-Type", "X-Bunker-Token"}

\* the client has issued an HTTP request for the current call
RequestIssued == pc \in {"inflight", "done"} /\ sent # NoRequest

\* C13: with a non-empty token configured, every HTTP request of the client
\* (_make_request, raw_request and get_system_metrics alike) carries it in
\* the X-Bunker-Token header.
C13_TokenOnEveryRequest ==
    (RequestIssued /\ x_bunker_token # "") =>
        /\ "X-Bunker-Token" \in DOMAIN sent.headers
        /\ sent.headers["X-Bunker-Token"] = x_bunker_token

\* an endpoint method has issued its HTTP request
EndpointCallStarted ==
    pc \in {"inflight", "done"} /\ call.op \in DispatchOps \cup {"raw_request"}

C15_OneRequestPerCall ==
    (pc \in {"inflight", "done"} /\ sent # NoRequest) => attempts = 1

C15_Witness ==
    /\ DispatchDone /\ outcome.kind = "fail" /\ attempts = 1

IsMetricLine(d) == d.kind = "metric" /\ d.number.value # ""

KeyOfLine(d) ==
    IF d.labels # <<>> THEN Str(d.name) \o "{" \o Str(d.labels) \o "}"
    ELSE Str(d.name)

MetricLinesWritten ==
    { i \in 1..Len(lines_written) : IsMetricLine(lines_written[i]) }

\* the metric line that states the value of its key: the last one with it
StatesItsKey(i) ==
    \A j \in MetricLinesWritten :
        KeyOfLine(lines_written[j]) = KeyOfLine(lines_written[i]) => j <= i

\* C18: parse_prometheus_metrics gives a flat mapping with one entry per
\* metric line `name value` or `name{labels} value`, keyed by the name or
\* name{labels} and holding the line's number; comment lines, blank lines
\* and anything else contribute no key.
C18_OneEntryPerMetricLine ==
    parsed # NoReturn =>
        /\ parsed.kind = "value" /\ parsed.val.t = "dict"
        /\ DictKeys(parsed.val)
             = { KeyOfLine(lines_written[i]) : i \in MetricLinesWritten }
        /\ Len(parsed.val.m) = Cardinality(DictKeys(parsed.val))
        /\ \A i \in MetricLinesWritten :
              StatesItsKey(i) =>
                  DictGet(parsed.val, KeyOfLine(lines_written[i]), PyNone)
                    = PyFloat(lines_written[i].number.value)

\* C19: bulk_list_users(unlock_uuid, users), called with a list of
\* {mode, identity} mappings, sends the unlock UUID and that list to
\* BulkListUsers as the users to fetch: the list travels under a key of its
\* own, not as a paging parameter.
C19_UsersListSent ==
    (pc \in {"inflight", "done"} /\ call.op = "bulk_list_users"
        /\ args[2].t = "list") =>
        /\ sent.method = "POST"
        /\ sent.url = base_url \o <<"/", "v2", "/", "BulkListUsers">>
        /\ BodyIsJsonObject
        /\ DictGet(SentObject, "unlockuuid", PyNone) = args[1]
        /\ \E k \in DictKeys(SentObject) \ {"unlockuuid", "offset", "limit",
                                           "request_metadata"} :
              DictGet(SentObject, k, PyNone) = args[2]

\* C20: the client offers bulk_list_all_users(unlock_uuid, offset, limit),
\* which sends unlockuuid, offset and limit and returns a mapping.
C20_BulkListAllUsersOffered ==
    (pc = "done" /\ call.op = "bulk_list_all_users") =>
        /\ ret.kind = "value" /\ ret.val.t = "dict"
        /\ sent.method = "POST"
        /\ BodyIsJsonObject
        /\ DictGet(SentObject, "unlockuuid", PyNone) = args[1]
        /\ DictGet(SentObject, "offset", PyNone) = args[2]
        /\ DictGet(SentObject, "limit", PyNone) = args[3]

\* What a tracked call sends and returns when it is the only call on the
\* client, written out: the request by its parts, the result per response.
AloneHeaders(op) ==
    [h \in {"Content-Type"}
           \cup (IF x_bunker_token # "" THEN {"X-Bunker-Token"} ELSE {})
           \cup (IF op # "raw_request" /\ x_bunker_tenant # ""
                 THEN {"X-Bunker-Tenant"} ELSE {})
       |-> CASE h = "Content-Type" -> "application/json"
             [] h = "X-Bunker-Token" -> x_bunker_token
             [] OTHER -> x_bunker_tenant]

AloneBody(c) ==
    CASE c.op = "_make_request" ->
           [present |-> TRUE,
            text |-> <<Punct("{"), StrTok("mode"), Punct(":"), StrTok("email"),
                       Punct(","), StrTok("identity"), Punct(":"), StrTok("a"),
                       Punct(","), StrTok("request_metadata"), Punct(":"),
                       Punct("{"), StrTok("src"), Punct(":"), StrTok("ui"),
                       Punct("}"), Punct("}")>>]
      [] c.op = "get_user" ->
           [present |-> TRUE,
            text |-> <<Punct("{"), StrTok("mode"), Punct(":"), StrTok("email"),
                       Punct(","), StrTok("identity"), Punct(":"), StrTok("b"),
                       Punct("}")>>]
      [] OTHER -> [present |-> FALSE, text |-> <<>>]

AloneRequest(c) ==
    [method |-> "POST",
     url |-> <<"http:", "/", "/", "host", "/", "v2", "/", c.endpoint>>,
     headers |-> AloneHeaders(c.op),
     body |-> AloneBody(c)]

AloneResult(c, o) ==
    IF c.op = "raw_request"
    THEN IF o.kind = "fail" THEN Raises(o.err) ELSE ReturnsBytes(o.content)
    ELSE CASE o.kind = "fail" ->
                Returns(PyDict(<<Item("status", PyStr("error")),
                                 Item("message",
                                      PyStr("Error making request: Connection refused"))>>))
           [] o.kind = "resp" /\ o.code = 200 -> Returns(BodyOkProfile)
           [] OTHER ->
                Returns(PyDict(<<Item("status", PyStr("error")),
                                 Item("message",
                                      PyStr("Error making request: 500 Server Error: "
                                            \o "Internal Server Error for url: "
                                            \o "http://host/v2/UserGet"))>>))

AsAlone(f) ==
    (f.pc \in {"inflight", "done"} /\ f.call \in TrackedCalls) =>
        /\ f.sent = AloneRequest(f.call)
        /\ (f.pc = "done" /\ f.outcome \in OtherOutcomes) =>
              f.ret = AloneResult(f.call, f.outcome)

\* C16: no operation changes base_url, x_bunker_token or x_bunker_tenant,
\* a step of one call leaves the other call's request and result alone, and
\* under every interleaving of two calls each call sends the request and
\* returns the result it sends and returns alone.
C16_CallsIndependent ==
    /\ [](AsAlone(Frame(pc, call, sent, outcome, ret)) /\ AsAlone(other))
    /\ [][/\ UNCHANGED <<base_url, x_bunker_token, x_bunker_tenant>>
          /\ other' # other => UNCHANGED <<pc, call, sent, outcome, ret>>
          /\ <<pc, call, sent, outcome, ret>>' # <<pc, call, sent, outcome, ret>>
                => other' = other]_vars

C16_Witness ==
    /\ pc = "done" /\ call \in TrackedCalls /\ call.op = "_make_request"
    /\ outcome \in OtherOutcomes /\ outcome.kind = "resp" /\ outcome.code = 500
    /\ other.pc = "inflight" /\ other.call.op = "raw_request"
    /\ x_bunker_tenant # ""

\***************************************************************************
\* Undecodable bodies
\***************************************************************************

UndecodableBody ==
    Responded /\ Is2xx(outcome.code) /\ ~JsonLoads(outcome.content).ok

\* C28: a 2xx response whose body is not valid JSON does not make a call
\* through _make_request raise: the call returns a mapping whose status is
\* "error".
C28_UndecodableBodyReturnsError ==
    (DispatchDone /\ UndecodableBody) =>
        /\ ReturnsMapping
        /\ DictGet(ret.val, "status", PyNone) = PyStr("error")

\***************************************************************************
\* Malformed metric text
\***************************************************************************

\* C29: parse_prometheus_metrics raises for no text: a line that is not a
\* comment and not a well-formed metric line (a value with several dots, a
\* lone dot, a negative or exponent value, a comment after leading spaces,
\* a line ending in a carriage return) is skipped, and the mapping of the
\* remaining lines is returned.
C29_MalformedLinesSkipped ==
    parsed # NoReturn =>
        /\ parsed.kind = "value" /\ parsed.val.t = "dict"
        /\ DictKeys(parsed.val)
             = { KeyOfLine(lines_written[i]) : i \in MetricLinesWritten }

\***************************************************************************
\* Bodies shaped from records, references and options
\***************************************************************************

ShapeStarted(op) == pc = "inflight" /\ call.op = op

SentRecords == DictGet(SentObject, "records", PyNone)

RecordKeys == {"profile", "groupname", "groupid", "rolename", "roleid"}

\* C21: create_users_bulk(records, options) sends to UserCreateBulk a body
\* whose records list has one entry per input record, in input order, each
\* with that record's profile unchanged and with no key other than profile,
\* groupname, groupid, rolename and roleid; the top level carries finaltime
\* and slidingtime exactly when the options contain them.
C21_BulkBodyShape ==
    ShapeStarted("create_users_bulk") =>
        /\ sent.url = base_url \o <<"/", "v2", "/", "UserCreateBulk">>
        /\ BodyIsJsonObject
        /\ SentRecords.t = "list"
        /\ Len(SentRecords.m) = Len(args[1].m)
        /\ \A i \in 1..Len(args[1].m) :
              /\ DictGet(SentRecords.m[i], "profile", PyNone)
                   = DictGet(args[1].m[i], "profile", PyNone)
              /\ DictKeys(SentRecords.m[i]) \subseteq RecordKeys
        /\ \A k \in {"finaltime", "slidingtime"} :
              /\ DictHas(SentObject, k) <=> DictHas(args[2], k)
              /\ DictGet(SentObject, k, PyNone) = DictGet(args[2], k, PyNone)

C21_Witness ==
    /\ ShapeStarted("create_users_bulk")
    /\ Len(args[1].m) = 2
    /\ DictGet(args[1].m[1], "profile", PyNone) # DictGet(args[1].m[2], "profile", PyNone)
    /\ DictHas(args[1].m[2], "note")
    /\ DictHas(args[2], "finaltime") /\ ~DictHas(args[2], "slidingtime")
    /\ call.request_metadata = MetaSrc

\* a reference argument of the call in flight, with the keys it may travel under
Reference(v, idkey, namekey) == [v |-> v, id |-> idkey, name |-> namekey]

ReferenceArguments ==
    CASE call.op = "add_user_to_group" ->
            { Reference(args[3], "groupid", "groupname"),
              Reference(args[4], "roleid", "rolename") }
      [] call.op = "bulk_list_group_users" ->
            { Reference(args[2], "groupid", "groupname") }
      [] call.op = "delete_connector" ->
            { Reference(args[1], "connectorid", "connectorname") }
      [] call.op \in {"connector_get_user_data", "connector_get_user_extra_data",
                      "connector_delete_user"} ->
            { Reference(args[3], "connectorid", "connectorname") }
      [] OTHER -> {}

IntegerOrAllDigits(v) == v.t = "int" \/ (v.t = "str" /\ IsDigit(Characters(v.s)))

\* C25: add_user_to_group, bulk_list_group_users, delete_connector and the
\* three connector user methods send, for each reference argument, the id
\* key when the argument is an integer or an all-digits string and the name
\* key otherwise, never both and never neither; a role_name of None, and
\* only that, leaves both role keys out.
C25_OneReferenceKey ==
    (pc = "inflight" /\ ReferenceArguments # {}) =>
        /\ BodyIsJsonObject
        /\ \A r \in ReferenceArguments :
              IF r.v = PyNone
              THEN ~DictHas(SentObject, r.id) /\ ~DictHas(SentObject, r.name)
              ELSE IF IntegerOrAllDigits(r.v)
              THEN /\ DictGet(SentObject, r.id, PyNone) = r.v
                   /\ ~DictHas(SentObject, r.name)
              ELSE /\ DictGet(SentObject, r.name, PyNone) = r.v
                   /\ DictHas(SentObject, r.name)
                   /\ ~DictHas(SentObject, r.id)

C25_Witness ==
    /\ ShapeStarted("add_user_to_group")
    /\ args[3] = PyInt(-1)
    /\ args[4] = PyStr("admins")
    /\ DictGet(SentObject, "groupid", PyNone) = PyInt(-1)
    /\ DictGet(SentObject, "rolename", PyNone) = PyStr("admins")

ReferenceKey(v, idkey, namekey) == IF IntegerOrAllDigits(v) THEN idkey ELSE namekey

\* the identifying arguments of the call in flight, under their keys
IdentifyingArguments ==
    CASE call.op \in {"create_x_token", "create_session"} ->
            { Item("mode", args[1]), Item("identity", args[2]) }
      [] call.op = "create_token" ->
            { Item("tokentype", args[1]), Item("record", args[2]) }
      [] call.op = "cancel_user_request" -> { Item("requestuuid", args[1]) }
      [] call.op = "update_group" ->
            { Item(ReferenceKey(args[1], "groupid", "groupname"), args[1]) }
      [] call.op = "update_role" ->
            { Item(ReferenceKey(args[1], "roleid", "rolename"), args[1]) }
      [] call.op = "update_policy" ->
            { Item(ReferenceKey(args[1], "policyid", "policyname"), args[1]) }
      [] call.op = "update_tenant" -> { Item("tenantid", args[1]) }
      [] call.op = "update_legal_basis" -> { Item("brief", args[1]) }
      [] call.op = "update_connector" -> { Item("connectorid", args[1]) }
      [] call.op = "update_processing_activity" -> { Item("activity", args[1]) }
      [] OTHER -> {}

\* C26: a method that takes identifying positional arguments and an options
\* mapping sends each identifying argument with the value the caller passed
\* positionally, whatever keys the options contain.
C26_IdentifyingArgumentsKept ==
    (pc = "inflight" /\ IdentifyingArguments # {}) =>
        /\ BodyIsJsonObject
        /\ \A a \in IdentifyingArguments :
              DictGet(SentObject, a.k, PyNone) = a.v

ReferenceKeys == {"groupname", "groupid", "rolename", "roleid"}

ReferencesOf(d) == { d.m[i] : i \in { j \in 1..Len(d.m) : d.m[j].k \in ReferenceKeys } }

OneKeyEach(d) ==
    /\ ~(DictHas(d, "groupid") /\ DictHas(d, "groupname"))
    /\ ~(DictHas(d, "roleid") /\ DictHas(d, "rolename"))

\* C27: create_user and create_users_bulk shape group and role references
\* identically: the reference keys and values of a record sent by
\* create_users_bulk are those create_user sends for the same options, and
\* the other way round, and neither sends both groupid and groupname or both
\* roleid and rolename for one user.
C27_SameReferenceShape ==
    /\ (ShapeStarted("create_user") /\ args[2] # PyNone) =>
          /\ ReferencesOf(SentObject) = ReferencesOf(BulkRecord(DictSet(args[2], "profile", args[1])))
          /\ OneKeyEach(SentObject)
    /\ ShapeStarted("create_users_bulk") =>
          \A i \in 1..Len(args[1].m) :
              /\ ReferencesOf(SentRecords.m[i])
                   = ReferencesOf(CreateUserData(DictGet(args[1].m[i], "profile", PyNone),
                                                 args[1].m[i]))
              /\ OneKeyEach(SentRecords.m[i])

\***************************************************************************
\* The bulk fetch script
\***************************************************************************

FetchUserRan == Len(fetcher'.fetched) = Len(fetcher.fetched) + 1

\* C22: every fetch_user adds exactly 1 to exactly one of total_fetched and
\* errors, no update is lost under any order in which the event loop runs
\* the coroutines, and when fetch_users_batch returns the two counters add
\* up to the number of tokens read from the file.
C22_CountersNeverLost ==
    /\ [][FetchUserRan =>
            \/ /\ fetcher'.stats.total_fetched = fetcher.stats.total_fetched + 1
               /\ fetcher'.stats.errors = fetcher.stats.errors
            \/ /\ fetcher'.stats.total_fetched = fetcher.stats.total_fetched
               /\ fetcher'.stats.errors = fetcher.stats.errors + 1]_vars
    /\ [][~FetchUserRan => fetcher'.stats = fetcher.stats]_vars
    /\ [](fetcher.stats.total_fetched + fetcher.stats.errors = Len(fetcher.fetched))
    /\ [](fetcher.pc = "returned" =>
            fetcher.stats.total_fetched + fetcher.stats.errors = Len(fetcher.tokens))

C22_Witness ==
    /\ fetcher.pc = "returned"
    /\ Len(fetcher.tokens) = 3
    /\ fetcher.stats.total_fetched + fetcher.stats.errors = 3
    /\ fetcher.fetched[1].k = 2

\* the get_user requests sent and not yet answered: the coroutines that have
\* started and wait for their response
InFlight == Cardinality({ k \in DOMAIN fetcher.tasks : fetcher.tasks[k] = "waiting" })

\* C23: the get_user calls of a batch are issued in parallel, so that with
\* two or more tokens in a batch more than one request is in flight at some
\* time, and a fetch is counted in total_fetched exactly when the client
\* returned status "ok" for it.
C23_BatchIssuedInParallel ==
    /\ Len(fetcher.tokens) >= 2 => <>(InFlight >= 2)
    /\ [](fetcher.stats.total_fetched = fetcher.ok)

BatchOf(k) == (k - 1) \div BatchSize

FetchesOf(k) == { p \in 1..Len(fetcher.fetched) : fetcher.fetched[p].k = k }

\* C30: fetch_users_batch takes the tokens in file order in consecutive
\* batches of at most batch_size, starts no fetch of a batch before every
\* fetch of the batch before it has finished, fetches every token exactly
\* once, and returns after the last batch.
C30_BatchesInOrderToTheEnd ==
    /\ <>(fetcher.pc = "returned")
    /\ [](fetcher.pc = "returned" =>
            \A k \in 1..Len(fetcher.tokens) : Cardinality(FetchesOf(k)) = 1)
    /\ [](\A k \in 1..Len(fetcher.tokens) : Cardinality(FetchesOf(k)) <= 1)
    /\ [](Cardinality(DOMAIN fetcher.tasks) <= BatchSize)
    /\ [](\A p \in 1..Len(fetcher.fetched) :
            /\ fetcher.fetched[p].token = Str(Strip(fetcher.tokens[fetcher.fetched[p].k]))
            /\ \A k \in 1..Len(fetcher.tokens) :
                  BatchOf(k) < BatchOf(fetcher.fetched[p].k) =>
                      \E q \in 1..(p - 1) : fetcher.fetched[q].k = k)

\***************************************************************************
\* The bulk creation script
\***************************************************************************

IsPrefix(a, b) == Len(a) <= Len(b) /\ SubSeq(b, 1, Len(a)) = a

LastResultOk ==
    LET r == creator'.results[Len(creator'.results)] IN
    r.kind = "value" /\ DictGet(r.val, "status", PyNone) = PyStr("ok")

\* C24: once user_tokens.txt is written it holds exactly the tokens
\* accumulated so far, one per line in accumulation order; a batch keeps the
\* tokens of earlier batches in place and adds at most 10; a batch whose
\* result is not status "ok" leaves the list and the file as they are, is
\* not retried, and the batches after it are still made.
C24_FileHoldsAccumulatedTokens ==
    /\ [](creator.written => Split(creator.file, "\n") = creator.all_tokens)
    /\ [][/\ IsPrefix(creator.all_tokens, creator'.all_tokens)
          /\ Len(creator'.all_tokens) <= Len(creator.all_tokens) + SampleSize
          /\ Len(creator'.results) <= Len(creator.results) + 1
          /\ (Len(creator'.results) > Len(creator.results) /\ ~LastResultOk) =>
                /\ creator'.all_tokens = creator.all_tokens
                /\ creator'.file = creator.file
                /\ creator'.batch = creator.batch + 1
                /\ creator'.pc = "loop"]_vars
    /\ [](creator.pc \in {"idle", "loop", "returned"})
    /\ [](creator.pc = "returned" => Len(creator.results) = NumBatches)

====
